---- MODULE Spec2Model ----
(***************************************************************************)
(* A model of src/src/tarp/drp.py: get_tarp_coverage, the single-pass      *)
(* pipeline _get_tarp_coverage_single and the resampling loop              *)
(* _get_tarp_coverage_bootstrap, together with numpy's process-wide        *)
(* random generator that both of them use.                                 *)
(*                                                                         *)
(* Numbers.  The arrays hold real numbers; the model computes with them    *)
(* exactly.  A number is a quotient p/q of two polynomials in the          *)
(* normalisation constant eps = 1e-10 (line 115), each a sequence of       *)
(* integer coefficients, lowest degree first.  The integer coefficients of *)
(* the model stay far below 1/eps, so the sign of a polynomial is the sign *)
(* of its first non-zero coefficient.  Floating-point rounding is not      *)
(* modelled.                                                               *)
(***************************************************************************)
EXTENDS Integers, Sequences, FiniteSets, TLC

\* ------------------------------------------------------------------ bounds

\* sample counts S of the enumerated inputs are 1..MaxS
MaxS == 2
\* entries of the enumerated arrays are 0..MaxVal
MaxVal == 2
\* num_bootstrap of the enumerated calls is 1..MaxBoot
MaxBoot == 3
\* num_alpha_bins of the enumerated calls is None or 0..MaxBins
MaxBins == 3
\* np.random.uniform(0, 1) yields a multiple of 1/RefDen in [0, 1)
RefDen == 2
\* the large dataset count of the enumerated inputs (num_sims // 10 >= 1)
BigN == 10

None == "None"

\* None where the code expects an integer (num_alpha_bins, seed)
NoInt == 0 - 1

\* -------------------------------------------------------------- arithmetic

Max(a, b) == IF a >= b THEN a ELSE b

Min(a, b) == IF a <= b THEN a ELSE b

\* coefficient k (from 0) of polynomial a
Coef(a, k) == IF k + 1 <= Len(a) THEN a[k + 1] ELSE 0

PAdd(a, b) == [k \in 1..Max(Len(a), Len(b)) |-> Coef(a, k - 1) + Coef(b, k - 1)]

PNeg(a) == [k \in 1..Len(a) |-> 0 - a[k]]

PSub(a, b) == PAdd(a, PNeg(b))

RECURSIVE ConvSum(_, _, _, _)
\* sum over i in 0..j of a_i * b_(k-i)
ConvSum(a, b, k, j) ==
  IF j < 0 THEN 0
  ELSE Coef(a, j) * Coef(b, k - j) + ConvSum(a, b, k, j - 1)

PMul(a, b) == [k \in 1..(Len(a) + Len(b) - 1) |-> ConvSum(a, b, k - 1, k - 1)]

RECURSIVE PSignFrom(_, _)
PSignFrom(a, k) ==
  IF k > Len(a) THEN 0
  ELSE IF a[k] > 0 THEN 1
  ELSE IF a[k] < 0 THEN 0 - 1
  ELSE PSignFrom(a, k + 1)

\* the sign of a(eps) for the small positive eps
PSign(a) == PSignFrom(a, 1)

\* a number p/q, q > 0
Num(p, q) == [p |-> p, q |-> q]

IntR(v) == Num(<<v>>, <<1>>)

\* the constant 1e-10 of lines 115, 116 and 118
Eps == Num(<<0, 1>>, <<1>>)

RSub(a, b) ==
  IF a.q = b.q THEN Num(PSub(a.p, b.p), a.q)
  ELSE Num(PSub(PMul(a.p, b.q), PMul(b.p, a.q)), PMul(a.q, b.q))

RAdd(a, b) ==
  IF a.q = b.q THEN Num(PAdd(a.p, b.p), a.q)
  ELSE Num(PAdd(PMul(a.p, b.q), PMul(b.p, a.q)), PMul(a.q, b.q))

RMul(a, b) == Num(PMul(a.p, b.p), PMul(a.q, b.q))

\* a / b for b > 0
RDiv(a, b) == Num(PMul(a.p, b.q), PMul(a.q, b.p))

RAbs(a) == IF PSign(a.p) < 0 THEN Num(PNeg(a.p), a.q) ELSE a

RLess(a, b) == PSign(PSub(PMul(a.p, b.q), PMul(b.p, a.q))) < 0

REq(a, b) == PSign(PSub(PMul(a.p, b.q), PMul(b.p, a.q))) = 0

RMin(a, b) == IF RLess(b, a) THEN b ELSE a

RMax(a, b) == IF RLess(a, b) THEN b ELSE a

RECURSIVE RSumTo(_, _)
\* xs[1] + ... + xs[k]
RSumTo(xs, k) == IF k = 0 THEN IntR(0) ELSE RAdd(RSumTo(xs, k - 1), xs[k])

RSum(xs) == RSumTo(xs, Len(xs))

RECURSIVE RMinTo(_, _)
RMinTo(xs, k) == IF k = 1 THEN xs[1] ELSE RMin(RMinTo(xs, k - 1), xs[k])

RECURSIVE RMaxTo(_, _)
RMaxTo(xs, k) == IF k = 1 THEN xs[1] ELSE RMax(RMaxTo(xs, k - 1), xs[k])

RECURSIVE Gcd(_, _)
Gcd(a, b) == IF b = 0 THEN a ELSE Gcd(b, a % b)

\* the fraction n/d (n >= 0, d > 0) in lowest terms
Frac(n, d) == LET g == Gcd(n, d) IN <<n \div g, d \div g>>

FAdd(x, y) == Frac(x[1] * y[2] + y[1] * x[2], x[2] * y[2])

FMul(x, y) == Frac(x[1] * y[1], x[2] * y[2])

FDiv(x, y) == Frac(x[1] * y[2], x[2] * y[1])

FSub(x, y) == Frac(x[1] * y[2] - y[1] * x[2], x[2] * y[2])

FLess(x, y) == x[1] * y[2] < y[1] * x[2]

FLeq(x, y) == x[1] * y[2] <= y[1] * x[2]

\* ------------------------------------------------------------------ arrays

\* An array is [shape |-> <<n1, ..., nk>>, v |-> nested sequences]; v of a
\* (S, N, D) array is indexed v[s][n][d], from 1.
Arr(shape, v) == [shape |-> shape, v |-> v]

Ndim(a) == Len(a.shape)

\* the references argument "random": no array
Random == Arr(<<>>, <<>>)

\* references == "random" (line 90) against an ndarray (lines 95, 186)
IsRandom(references) == references = Random

\* samples[:, idx, :] of line 184: column j is column idx[j] (idx counts from 0)
TakeSims(samples, idx) ==
  Arr(<<samples.shape[1], Len(idx), samples.shape[3]>>,
      [s \in 1..samples.shape[1] |-> [j \in 1..Len(idx) |-> samples.v[s][idx[j] + 1]]])

\* theta[idx, :] of lines 185 and 187: row j is row idx[j]
TakeRows(a, idx) ==
  Arr(<<Len(idx), a.shape[2]>>, [j \in 1..Len(idx) |-> a.v[idx[j] + 1]])

\* whether a[idx, :] raises IndexError: too many indices, or an index out of bounds
TakeRowsFails(a, idx) ==
  \/ Ndim(a) < 2
  \/ \E j \in 1..Len(idx) : idx[j] >= a.shape[1]

\* ------------------------------------------------ the single-pass pipeline

\* np.min(theta, keepdims=True): the minimum of all entries
LowOfAll(theta, N, D) ==
  [d \in 1..D |-> RMinTo([n \in 1..N |-> RMinTo([e \in 1..D |-> theta[n][e]], D)], N)]

\* np.min(theta, axis=1, keepdims=True) of line 113, theta of shape (1, N, D):
\* the minimum along the dataset axis, one value per dimension d
LowOf(theta, N, D) == [d \in 1..D |-> RMinTo([n \in 1..N |-> theta[n][d]], N)]

\* np.max(theta, axis=1, keepdims=True) of line 114
HighOf(theta, N, D) == [d \in 1..D |-> RMaxTo([n \in 1..N |-> theta[n][d]], N)]

\* (x - low) / (high - low + 1e-10) of lines 115, 116 and 118, at dimension d
Rescale(x, low, high, d) == RDiv(RSub(x, low[d]), RAdd(RSub(high[d], low[d]), Eps))

\* a distance: the number v, or its square root
Dist(v, root) == [v |-> v, root |-> root]

\* d1 < d2 for two distances of one metric (the square root is increasing)
DistLess(d1, d2) == RLess(d1.v, d2.v)

\* lines 121-128: the distance of point x to point r, both of D components
Distance(metric, r, x, D) ==
  IF metric = "euclidean"
  THEN Dist(RSum([d \in 1..D |-> RMul(RSub(r[d], x[d]), RSub(r[d], x[d]))]), TRUE)
  ELSE Dist(RSum([d \in 1..D |-> RAbs(RSub(r[d], x[d]))]), FALSE)

\* the number of x in 1..k with P[x]
RECURSIVE CountTo(_, _)
CountTo(P, k) == IF k = 0 THEN 0 ELSE CountTo(P, k - 1) + (IF P[k] THEN 1 ELSE 0)

\* the count with <= in place of <
CoverageLeq(samples_distances, theta_distances, S, N) ==
  [n \in 1..N |->
     Frac(CountTo([s \in 1..S |-> ~DistLess(theta_distances[n], samples_distances[s][n])], S), S)]

\* line 133: f = np.sum(samples_distances < theta_distances, axis=0) / num_samples
Coverage(samples_distances, theta_distances, S, N) ==
  [n \in 1..N |->
     Frac(CountTo([s \in 1..S |-> DistLess(samples_distances[s][n], theta_distances[n])], S), S)]

RECURSIVE IntSumTo(_, _)
\* xs[1] + ... + xs[k]
IntSumTo(xs, k) == IF k = 0 THEN 0 ELSE IntSumTo(xs, k - 1) + xs[k]

\* np.histogram's bin edges for bins equal bins over range=(0, 1): linspace(0, 1, bins + 1)
BinEdges(bins) == [k \in 1..(bins + 1) |-> Frac(k - 1, bins)]

\* np.histogram's bin (from 1) of a value x in [0, 1]: floor(x * bins), and the
\* last bin for x equal to the last edge
BinIndex(x, bins) ==
  IF x = <<1, 1>> THEN bins ELSE ((x[1] * bins) \div x[2]) + 1

\* the histogram without density=True: the counts
HistogramCounts(f, bins) ==
  [h |-> [b \in 1..bins |->
            Frac(CountTo([n \in 1..Len(f) |-> BinIndex(f[n], bins) = b], Len(f)), 1)],
   alpha |-> BinEdges(bins)]

\* np.histogram(f, density=True, bins=bins, range=(0, 1)) of line 136:
\* counts n, then n / db / n.sum()
Histogram(f, bins) ==
  LET alpha == BinEdges(bins)
      cnt == [b \in 1..bins |-> CountTo([n \in 1..Len(f) |-> BinIndex(f[n], bins) = b], Len(f))]
      total == IntSumTo(cnt, bins)
  IN [h |-> [b \in 1..bins |->
               FDiv(FDiv(Frac(cnt[b], 1), FSub(alpha[b + 1], alpha[b])), Frac(total, 1))],
      alpha |-> alpha]

\* a cumsum that does not accumulate
CumSumFlat(h, k) == h[k]

RECURSIVE CumSum(_, _)
\* np.cumsum(h)[k]
CumSum(h, k) == IF k = 1 THEN h[1] ELSE FAdd(CumSum(h, k - 1), h[k])

\* lines 136-139: (np.concatenate(([0], np.cumsum(h) * dx)), alpha)
ExpectedCoverage(f, bins) ==
  LET hist == Histogram(f, bins)
      dx == FSub(hist.alpha[2], hist.alpha[1])
  IN [ecp |-> <<Frac(0, 1)>> \o [k \in 1..bins |-> FMul(CumSum(hist.h, k), dx)],
      alpha |-> hist.alpha]

\* ------------------------------------------------------------------- state

VARIABLES
  args,      \* the arguments of the get_tarp_coverage call
  pc,        \* the statement the call is at; "done" and "raised" end it
  err,       \* the exception that ended the call and the line that raised it
  ret,       \* the returned [ecp, alpha], or None
  rng,       \* np.random's process-wide generator state
  memo,      \* what the generator yields at each seeded state reached so far
  rngLog,    \* the generator operations of the call so far, in order
  i,         \* the bootstrap loop's counter (line 180)
  idx,       \* the bootstrap loop's index vector (line 181)
  idx_from,  \* the generator state idx was drawn from
  boot_ecp,  \* the rows of boot_ecp filled so far (lines 178, 191)
  alpha,     \* the bootstrap loop's alpha (lines 179, 191)
  cur,       \* the arrays _get_tarp_coverage_single was called with
  loc,       \* the locals of _get_tarp_coverage_single
  call,      \* 1, or 2 in a repeated call
  first      \* the outcome of the first call, for a repeated call

vars == <<args, pc, err, ret, rng, memo, rngLog, i, idx, idx_from, boot_ecp, alpha, cur,
          loc, call, first>>

\* ---------------------------------------------------------------- generator

\* a generator state nothing is known about: the state before the call, or the
\* state np.random.seed(None) takes from the operating system's entropy
Unseeded == [seeded |-> FALSE]

\* the state np.random.seed(seed) sets, advanced by pos variates
Seeded(seed, pos) == [seeded |-> TRUE, seed |-> seed, pos |-> pos]

\* a seeding that takes effect once per call: later calls leave the generator alone
SeedStateOnce(seed) ==
  IF \E k \in 1..Len(rngLog) : rngLog[k] = "seed" THEN rng
  ELSE IF seed = NoInt THEN Unseeded ELSE Seeded(seed, 0)

\* np.random.seed(seed) of line 63
SeedState(seed) == IF seed = NoInt THEN Unseeded ELSE Seeded(seed, 0)

\* the generator state after n variates were drawn in state g
Advance(g, n) == IF g.seeded THEN Seeded(g.seed, g.pos + n) ELSE Unseeded

\* the index vectors np.random.randint(low=0, high=N, size=N) can yield; of the
\* N^N vectors of a large N only the enumerated ones are drawn
IdxVectors(N) ==
  IF N < BigN - 1 THEN [1..N -> 0..(N - 1)]
  ELSE {[j \in 1..N |-> j - 1], [j \in 1..N |-> 0], [j \in 1..N |-> (3 * j) % N]}

\* the arrays np.random.uniform(low=0, high=1, size=(1, N, D)) can yield
UniformArrays(N, D) == [1..N -> [1..D -> {Num(<<k>>, <<RefDen>>) : k \in 0..(RefDen - 1)}]]

\* A draw in generator state g yields x: a seeded state always yields the same
\* values, an unseeded one any.
Draws(g, x) == g.seeded => \A m \in memo : m.state = g => m.value = x

Remember(g, x) == IF g.seeded THEN memo \cup {[state |-> g, value |-> x]} ELSE memo

\* ------------------------------------------------------------------ actions

NoLocals ==
  [samples |-> None, theta |-> None, references |-> None, references_given |-> FALSE,
   num_alpha_bins |-> NoInt, low |-> None, high |-> None, f |-> None]

NoError == [type |-> "None", line |-> 0]

\* raise, at the given line of drp.py
Raise(type, line) ==
  /\ pc' = "raised"
  /\ err' = [type |-> type, line |-> line]
  /\ UNCHANGED ret

\* lines 239-243: get_tarp_coverage dispatches on bootstrap
get_tarp_coverage ==
  /\ pc = "call"
  /\ pc' = IF args.bootstrap THEN "bootstrap" ELSE "single"
  /\ cur' = IF args.bootstrap THEN cur
            ELSE [samples |-> args.samples, theta |-> args.theta,
                  references |-> args.references,
                  num_alpha_bins |-> args.num_alpha_bins]
  /\ UNCHANGED <<args, err, ret, rng, memo, rngLog, i, idx, idx_from, boot_ecp, alpha, loc,
                 call, first>>

\* lines 173-179: _get_tarp_coverage_bootstrap up to its loop
bootstrap_enter ==
  /\ pc = "bootstrap"
  /\ IF Ndim(args.samples) < 2
     THEN Raise("IndexError", 173) /\ UNCHANGED <<boot_ecp, alpha, i>>
     ELSE /\ pc' = "loop"
          /\ boot_ecp' = <<>>
          /\ alpha' = None
          /\ i' = 0
          /\ UNCHANGED <<err, ret>>
  /\ UNCHANGED <<args, rng, memo, rngLog, idx, idx_from, cur, loc, call, first>>

\* references handed on as they came, not resampled
BootReferencesStale(references, x) == references

\* lines 186-189: boot_references
BootReferences(references, x) ==
  IF IsRandom(references) THEN references ELSE TakeRows(references, x)

\* num_alpha_bins of lines 175-176
BootBins ==
  IF args.num_alpha_bins = NoInt THEN args.samples.shape[2] \div 10 ELSE args.num_alpha_bins

\* lines 180-199: one pass of the loop up to the call of _get_tarp_coverage_single
bootstrap_draw ==
  /\ pc = "loop"
  /\ i < args.num_bootstrap
  /\ LET num_sims == args.samples.shape[2] IN
     \E x \in IdxVectors(num_sims) :
       /\ Draws(rng, x)
       /\ memo' = Remember(rng, x)
       /\ idx' = x
       /\ idx_from' = rng
       /\ rng' = Advance(rng, num_sims)
       /\ rngLog' = Append(rngLog, "randint")
       /\ IF Ndim(args.samples) # 3
          THEN Raise("IndexError", 184) /\ UNCHANGED cur
          ELSE IF TakeRowsFails(args.theta, x)
          THEN Raise("IndexError", 185) /\ UNCHANGED cur
          ELSE IF ~IsRandom(args.references) /\ TakeRowsFails(args.references, x)
          THEN Raise("IndexError", 187) /\ UNCHANGED cur
          ELSE /\ pc' = "single"
               /\ cur' = [samples |-> TakeSims(args.samples, x),
                          theta |-> TakeRows(args.theta, x),
                          references |-> BootReferences(args.references, x),
                          num_alpha_bins |-> BootBins]
               /\ UNCHANGED <<err, ret>>
  /\ UNCHANGED <<args, i, boot_ecp, alpha, loc, call, first>>

\* line 200: the loop is over
bootstrap_return ==
  /\ pc = "loop"
  /\ i >= args.num_bootstrap
  /\ pc' = "done"
  /\ ret' = [ecp |-> boot_ecp, alpha |-> alpha]
  /\ UNCHANGED <<args, err, rng, memo, rngLog, i, idx, idx_from, boot_ecp, alpha, cur, loc,
                 call, first>>

\* line 63: np.random.seed(seed), the first statement of _get_tarp_coverage_single
single_seed ==
  /\ pc = "single"
  /\ rng' = SeedState(args.seed)
  /\ rngLog' = Append(rngLog, "seed")
  /\ loc' = NoLocals
  /\ pc' = "check"
  /\ UNCHANGED <<args, err, ret, memo, i, idx, idx_from, boot_ecp, alpha, cur, call, first>>

\* an integer array as an array of numbers
AsNumbers2(a) == [n \in 1..a.shape[1] |-> [d \in 1..a.shape[2] |-> IntR(a.v[n][d])]]

AsNumbers3(a) ==
  [s \in 1..a.shape[1] |-> [n \in 1..a.shape[2] |-> [d \in 1..a.shape[3] |-> IntR(a.v[s][n][d])]]]

\* a default bin count that is never 0
DefaultBinsAtLeastOne(num_sims) == Max(1, num_sims \div 10)

\* line 77: the bin count when num_alpha_bins is None
DefaultBins(num_sims) == num_sims \div 10

\* lines 66-86: the checks of samples and theta
single_check ==
  /\ pc = "check"
  /\ IF Ndim(cur.samples) # 3
     THEN Raise("ValueError", 67) /\ UNCHANGED loc
     ELSE IF Ndim(cur.theta) # 2
     THEN Raise("ValueError", 70) /\ UNCHANGED loc
     ELSE LET num_sims == cur.samples.shape[2]
              num_dims == cur.samples.shape[3]
          IN IF cur.theta.shape[1] # num_sims
             THEN Raise("ValueError", 80) /\ UNCHANGED loc
             ELSE IF cur.theta.shape[2] # num_dims
             THEN Raise("ValueError", 83) /\ UNCHANGED loc
             ELSE /\ pc' = "references"
                  /\ loc' = [loc EXCEPT
                       !.samples = AsNumbers3(cur.samples),
                       !.theta = AsNumbers2(cur.theta),
                       !.num_alpha_bins = IF cur.num_alpha_bins = NoInt
                                          THEN DefaultBins(num_sims)
                                          ELSE cur.num_alpha_bins]
                  /\ UNCHANGED <<err, ret>>
  /\ UNCHANGED <<args, rng, memo, rngLog, i, idx, idx_from, boot_ecp, alpha, cur, call, first>>

\* lines 88-109: the reference points, drawn or checked
single_references ==
  /\ pc = "references"
  /\ LET num_sims == cur.samples.shape[2]
         num_dims == cur.samples.shape[3]
     IN IF IsRandom(cur.references)
        THEN \E x \in UniformArrays(num_sims, num_dims) :
               /\ Draws(rng, x)
               /\ memo' = Remember(rng, x)
               /\ rng' = Advance(rng, num_sims * num_dims)
               /\ rngLog' = Append(rngLog, "uniform")
               /\ loc' = [loc EXCEPT !.references = x]
               /\ pc' = "normalize"
               /\ UNCHANGED <<err, ret>>
        ELSE /\ IF Ndim(cur.references) # 2
                THEN Raise("ValueError", 97) /\ UNCHANGED loc
                ELSE IF cur.references.shape[1] # num_sims
                THEN Raise("ValueError", 100) /\ UNCHANGED loc
                ELSE IF cur.references.shape[2] # num_dims
                THEN Raise("ValueError", 103) /\ UNCHANGED loc
                ELSE /\ pc' = "normalize"
                     /\ loc' = [loc EXCEPT !.references = AsNumbers2(cur.references),
                                           !.references_given = TRUE]
                     /\ UNCHANGED <<err, ret>>
             /\ UNCHANGED <<rng, memo, rngLog>>
  /\ UNCHANGED <<args, i, idx, idx_from, boot_ecp, alpha, cur, call, first>>

\* lines 111-118: the normalisation
single_normalize ==
  /\ pc = "normalize"
  /\ pc' = "coverage"
  /\ LET S == cur.samples.shape[1]
         N == cur.samples.shape[2]
         D == cur.samples.shape[3]
         low == LowOf(loc.theta, N, D)
         high == HighOf(loc.theta, N, D)
     IN IF args.norm
        THEN loc' = [loc EXCEPT
               !.low = low,
               !.high = high,
               !.samples = [s \in 1..S |-> [n \in 1..N |-> [d \in 1..D |->
                              Rescale(loc.samples[s][n][d], low, high, d)]]],
               !.theta = [n \in 1..N |-> [d \in 1..D |->
                            Rescale(loc.theta[n][d], low, high, d)]],
               !.references =
                  IF loc.references_given
                  THEN [n \in 1..N |-> [d \in 1..D |->
                          Rescale(loc.references[n][d], low, high, d)]]
                  ELSE loc.references]
        ELSE UNCHANGED loc
  /\ UNCHANGED <<args, err, ret, rng, memo, rngLog, i, idx, idx_from, boot_ecp, alpha, cur,
                 call, first>>

\* lines 120-133: the distances and the credibility values f
single_coverage ==
  /\ pc = "coverage"
  /\ IF args.metric \notin {"euclidean", "manhattan"}
     THEN Raise("ValueError", 130) /\ UNCHANGED loc
     ELSE LET S == cur.samples.shape[1]
              N == cur.samples.shape[2]
              D == cur.samples.shape[3]
              samples_distances ==
                [s \in 1..S |-> [n \in 1..N |->
                   Distance(args.metric, loc.references[n], loc.samples[s][n], D)]]
              theta_distances ==
                [n \in 1..N |-> Distance(args.metric, loc.references[n], loc.theta[n], D)]
          IN /\ loc' = [loc EXCEPT !.f = Coverage(samples_distances, theta_distances, S, N)]
             /\ pc' = "histogram"
             /\ UNCHANGED <<err, ret>>
  /\ UNCHANGED <<args, rng, memo, rngLog, i, idx, idx_from, boot_ecp, alpha, cur, call, first>>

\* lines 135-139, and the caller's use of the result: line 191 in the bootstrap
\* loop, lines 243-244 in get_tarp_coverage
single_histogram ==
  /\ pc = "histogram"
  /\ IF loc.num_alpha_bins < 1
     THEN Raise("ValueError", 136) /\ UNCHANGED <<boot_ecp, alpha, i>>
     ELSE LET out == ExpectedCoverage(loc.f, loc.num_alpha_bins)
          IN IF args.bootstrap
             THEN /\ boot_ecp' = Append(boot_ecp, out.ecp)
                  /\ alpha' = out.alpha
                  /\ i' = i + 1
                  /\ pc' = "loop"
                  /\ UNCHANGED <<err, ret>>
             ELSE /\ ret' = out
                  /\ pc' = "done"
                  /\ UNCHANGED <<err, boot_ecp, alpha, i>>
  /\ UNCHANGED <<args, rng, memo, rngLog, idx, idx_from, cur, loc, call, first>>

\* ------------------------------------------------------------------- inputs

\* the dataset counts N and the dimensions D of the small enumerated inputs
MaxN == 2
MaxD == 2

\* the integer seed of the enumerated seeded calls
TheSeed == 0

\* An enumerated array has entry (c[1] + c[2]*s + c[3]*n + c[4]*d) % (MaxVal + 1)
\* at (s, n, d), and (c[1] + c[2]*n + c[3]*d) % (MaxVal + 1) at (n, d).
GenSamples(S, N, D, c) ==
  Arr(<<S, N, D>>,
      [s \in 1..S |-> [n \in 1..N |-> [d \in 1..D |->
         (c[1] + c[2] * s + c[3] * n + c[4] * d) % (MaxVal + 1)]]])

GenRows(N, D, c) ==
  Arr(<<N, D>>, [n \in 1..N |-> [d \in 1..D |-> (c[1] + c[2] * n + c[3] * d) % (MaxVal + 1)]])

SampleCoefs == {<<o, 1, 0, 0>> : o \in 0..MaxVal} \cup {<<o, 0, 1, 0>> : o \in 0..MaxVal}
                 \cup {<<o, 1, 1, 1>> : o \in 0..MaxVal}

ThetaCoefs == {<<o, 0, 0>> : o \in 0..MaxVal} \cup {<<o, 1, 0>> : o \in 0..MaxVal}
                \cup {<<o, 1, 1>> : o \in 0..MaxVal}

RefCoefs == {<<0, 0, 0>>, <<1, 1, 0>>}

Call(samples, theta, references, metric, num_alpha_bins, num_bootstrap, norm, bootstrap, seed) ==
  [samples |-> samples, theta |-> theta, references |-> references, metric |-> metric,
   num_alpha_bins |-> num_alpha_bins, num_bootstrap |-> num_bootstrap, norm |-> norm,
   bootstrap |-> bootstrap, seed |-> seed]

\* single-pass calls on well-shaped arrays with supplied references
ValueInputs ==
  {Call(GenSamples(S, N, D, cs), GenRows(N, D, ct), GenRows(N, D, cr), metric, 2, 1, norm,
        FALSE, NoInt) :
     S \in 1..MaxS, N \in 1..MaxN, D \in 1..MaxD, cs \in SampleCoefs, ct \in ThetaCoefs,
     cr \in RefCoefs, metric \in {"euclidean", "manhattan"}, norm \in BOOLEAN}

\* the dataset counts of the enumerated bootstrap calls: every index vector of
\* such a count is drawn
BootSims == {1, 2}

\* calls with every bin count, on few and on many datasets
BinInputs ==
  UNION {
    {Call(GenSamples(S, N, 1, cs), GenRows(N, 1, <<1, 0, 0>>), GenRows(N, 1, <<0, 0, 0>>),
          "euclidean", bins, 1, FALSE, bootstrap, TheSeed) :
       S \in 1..MaxS, cs \in SampleCoefs, bins \in {NoInt} \cup (0..MaxBins),
       bootstrap \in {FALSE} \cup {(N \in BootSims) \/ (N >= BigN - 1)}} :
    N \in (1..MaxN) \cup {BigN - 1, BigN}}

\* bootstrap and single-pass calls, seeded and not, with drawn and supplied references
BootInputs ==
  UNION {
    {Call(GenSamples(S, N, 1, <<0, 1, 1, 0>>), GenRows(N, 1, <<0, 1, 0>>), references,
          metric, 2, B, norm, bootstrap, seed) :
       S \in 1..MaxS, references \in {Random, GenRows(N, 1, <<1, 1, 0>>)},
       metric \in {"manhattan", "chebyshev"}, B \in 1..MaxBoot, norm \in BOOLEAN,
       bootstrap \in BOOLEAN, seed \in {NoInt, TheSeed}} :
    N \in BootSims}

\* theta and references of every rank and shape near that of samples; the
\* entries of an array of the wrong rank are never read, and are left out
ShapeInputs ==
  LET N == 2
      RowShapes == {<<N>>} \cup {<<n, d>> : n \in (N - 1)..(N + 1), d \in 1..2}
      Rows(sh) == IF Len(sh) = 2 THEN GenRows(sh[1], sh[2], <<0, 1, 1>>) ELSE Arr(sh, <<>>)
      Samples == {GenSamples(1, N, 1, <<0, 1, 1, 0>>), Arr(<<N>>, <<>>), Arr(<<1, N>>, <<>>)}
  IN {Call(samples, Rows(ts), references, "euclidean", 1, B, FALSE, bootstrap, TheSeed) :
        samples \in Samples, ts \in RowShapes,
        references \in {Random} \cup {Rows(rs) : rs \in RowShapes},
        B \in 1..2, bootstrap \in BOOLEAN}

Inputs == ValueInputs \cup BinInputs \cup BootInputs \cup ShapeInputs

\* ----------------------------------------------------------- specification

Init ==
  /\ args \in Inputs
  /\ pc = "call"
  /\ err = NoError
  /\ ret = None
  /\ rng = Unseeded
  /\ memo = {}
  /\ rngLog = <<>>
  /\ i = 0
  /\ idx = None
  /\ idx_from = None
  /\ boot_ecp = None
  /\ alpha = None
  /\ cur = None
  /\ loc = NoLocals
  /\ call = 1
  /\ first = None

Next ==
  \/ get_tarp_coverage
  \/ bootstrap_enter
  \/ bootstrap_draw
  \/ bootstrap_return
  \/ single_seed
  \/ single_check
  \/ single_references
  \/ single_normalize
  \/ single_coverage
  \/ single_histogram

Spec == Init /\ [][Next]_vars

\* A caller that repeats a seeded call with the same arguments, the generator
\* being in whatever state the process has left it in.
call_again ==
  /\ call = 1
  /\ pc \in {"done", "raised"}
  /\ args.seed # NoInt
  /\ call' = 2
  /\ first' = [pc |-> pc, err |-> err, ret |-> ret]
  /\ pc' = "call"
  /\ err' = NoError
  /\ ret' = None
  /\ rng' = Unseeded
  /\ rngLog' = <<>>
  /\ UNCHANGED <<args, memo, i, idx, idx_from, boot_ecp, alpha, cur, loc>>

NextTwice == Next \/ call_again

SpecTwice == Init /\ [][NextTwice]_vars

\* ------------------------------------------------------------------- claims

\* the arrays are of the ranks the signature names
RanksOk ==
  /\ Ndim(args.samples) = 3
  /\ Ndim(args.theta) = 2
  /\ IsRandom(args.references) \/ Ndim(args.references) = 2

\* samples is (S, N, D) and theta, or the supplied references, is not (N, D)
ShapeMismatch ==
  /\ RanksOk
  /\ \/ args.theta.shape # <<args.samples.shape[2], args.samples.shape[3]>>
     \/ /\ ~IsRandom(args.references)
        /\ args.references.shape # <<args.samples.shape[2], args.samples.shape[3]>>

\* the call is one with valid arguments
ValidCall ==
  /\ RanksOk
  /\ ~ShapeMismatch
  /\ args.metric \in {"euclidean", "manhattan"}

\* C1: a call whose theta or supplied references does not have the N rows and D
\* columns of samples never returns a result, with bootstrap or without.
C1_MismatchNeverReturns == ShapeMismatch => pc # "done"

\* C2: a seeded call with valid arguments, repeated with the same arguments,
\* returns the same (ecp, alpha) as the first call, whatever state the generator
\* was in when each call began; with bootstrap, every row is the same.
C2_SameSeedSameResult ==
  (ValidCall /\ call = 2 /\ pc = "done" /\ first.pc = "done") => ret = first.ret

\* C3: in a seeded bootstrap call the generator is seeded once, before the first
\* index draw, and never again: of the generator operations of the call, the
\* first one, and only the first one, is the seeding.
C3_SeededOnceBeforeDraws ==
  (args.bootstrap /\ args.seed # NoInt) =>
     \A k \in 1..Len(rngLog) : (rngLog[k] = "seed") <=> (k = 1)

\* a curve of bins + 1 entries that starts at 0 and never decreases
CurveOk(e, bins) ==
  /\ Len(e) = bins + 1
  /\ e[1] = <<0, 1>>
  /\ \A k \in 1..bins : FLeq(e[k], e[k + 1])

\* C4: with num_alpha_bins >= 1, every returned ECP curve (the one curve of a
\* single pass, each of the num_bootstrap rows of a bootstrap call) has
\* num_alpha_bins + 1 entries, starts at exactly 0 and is non-decreasing.
C4_CurveShape ==
  (pc = "done" /\ args.num_alpha_bins >= 1) =>
     IF args.bootstrap
     THEN /\ Len(ret.ecp) = args.num_bootstrap
          /\ \A r \in 1..Len(ret.ecp) : CurveOk(ret.ecp[r], args.num_alpha_bins)
     ELSE CurveOk(ret.ecp, args.num_alpha_bins)

\* a bootstrap call returned several rows, one of them rising in two steps
C4_Witness ==
  /\ pc = "done"
  /\ args.bootstrap
  /\ args.num_alpha_bins >= 2
  /\ Len(ret.ecp) >= 2
  /\ \E r \in 1..Len(ret.ecp) :
       FLess(ret.ecp[r][1], ret.ecp[r][2]) /\ FLess(ret.ecp[r][2], ret.ecp[r][3])

\* the curve e is the cumulative distribution of the values f at the bins + 1
\* edges k/bins: entry k is the fraction of the values below edge k (a value of
\* exactly 1 counts at the last edge), and the last entry is 1
CurveOf(f, e, bins) ==
  /\ e[bins + 1] = <<1, 1>>
  /\ \A k \in 1..(bins + 1) :
       e[k] = Frac(Cardinality({n \in 1..Len(f) :
                       IF k = bins + 1 THEN FLeq(f[n], <<1, 1>>)
                       ELSE FLess(f[n], Frac(k - 1, bins))}),
                   Len(f))

\* C10: with num_alpha_bins >= 1 every credibility value falls in one bin of
\* [0, 1] (a value of exactly 1 in the last), so the last entry of every returned
\* curve is 1, and entry k is the fraction of the datasets whose credibility
\* value lies below edge k.
C10_CurveIsDistribution ==
  /\ (pc = "done" /\ ~args.bootstrap) => CurveOf(loc.f, ret.ecp, loc.num_alpha_bins)
  /\ (pc \in {"loop", "done"} /\ args.bootstrap /\ i >= 1) =>
        CurveOf(loc.f, boot_ecp[i], loc.num_alpha_bins)
  /\ (pc = "done" /\ args.bootstrap) =>
        \A r \in 1..Len(ret.ecp) : ret.ecp[r][Len(ret.ecp[r])] = <<1, 1>>

\* a call returned a curve of two or more bins, with a credibility value of
\* exactly 1 and another on an inner edge
C10_Witness ==
  /\ pc = "done"
  /\ loc.num_alpha_bins >= 2
  /\ \E n \in 1..Len(loc.f) : loc.f[n] = <<1, 1>>
  /\ \E n \in 1..Len(loc.f) : loc.f[n] = <<1, 2>>

\* C9: with num_alpha_bins unset and fewer than 10 datasets a call with valid
\* arguments never returns: it ends in the histogram's error (line 136); with
\* 10 datasets or more every returned curve has N // 10 + 1 entries.
C9_DefaultBins ==
  (ValidCall /\ args.num_alpha_bins = NoInt) =>
     LET N == args.samples.shape[2] IN
       /\ N < 10 => /\ pc # "done"
                    /\ pc = "raised" => err = [type |-> "ValueError", line |-> 136]
       /\ (N >= 10 /\ pc = "done") =>
             IF args.bootstrap
             THEN \A r \in 1..Len(ret.ecp) : Len(ret.ecp[r]) = (N \div 10) + 1
             ELSE Len(ret.ecp) = (N \div 10) + 1

\* a bootstrap call on fewer than 10 datasets, num_alpha_bins unset, has ended in
\* the histogram's error
C9_Witness ==
  /\ ValidCall
  /\ args.num_alpha_bins = NoInt
  /\ args.bootstrap
  /\ args.samples.shape[2] < 10
  /\ pc = "raised"
  /\ err.line = 136

\* _get_tarp_coverage_single is running, or has just returned, on the arrays cur
InSingle == pc \in {"single", "check", "references", "normalize", "coverage", "histogram"}

\* C5: in every bootstrap pass with supplied references one index vector idx of
\* N values in [0, N) resamples all three arrays: column j of the resampled
\* samples, row j of the resampled theta and row j of the resampled references
\* are those of the input at dataset idx[j].
C5_CoResampling ==
  (args.bootstrap /\ ~IsRandom(args.references) /\ InSingle) =>
     LET N == args.samples.shape[2] IN
       /\ Len(idx) = N
       /\ Len(cur.theta.v) = N
       /\ Len(cur.references.v) = N
       /\ \A s \in 1..args.samples.shape[1] : Len(cur.samples.v[s]) = N
       /\ \A j \in 1..N :
            /\ idx[j] \in 0..(N - 1)
            /\ \A s \in 1..args.samples.shape[1] :
                 cur.samples.v[s][j] = args.samples.v[s][idx[j] + 1]
            /\ cur.theta.v[j] = args.theta.v[idx[j] + 1]
            /\ cur.references.v[j] = args.references.v[idx[j] + 1]

\* a bootstrap pass runs on the two datasets swapped, the supplied references of
\* the two being different
C5_Witness ==
  /\ args.bootstrap
  /\ ~IsRandom(args.references)
  /\ ValidCall
  /\ pc = "check"
  /\ idx = <<1, 0>>
  /\ args.references.v[1] # args.references.v[2]

\* the integers m in xs with no smaller (Sign = 1) or no larger (Sign = -1) one
Extreme(xs, Sign) == CHOOSE m \in xs : \A x \in xs : Sign * m <= Sign * x

\* x rescaled with the pair (lo, hi): (x - lo) / (hi - lo + 1e-10)
Rescaled(x, lo, hi) == Num(<<x - lo>>, <<hi - lo, 1>>)

\* the arrays after the normalisation are the arrays cur rescaled with the
\* minimum Lo[n][d] and the maximum Hi[n][d] at dataset n and dimension d
NormalizedWith(Lo, Hi) ==
  \A n \in 1..cur.samples.shape[2] : \A d \in 1..cur.samples.shape[3] :
    /\ REq(loc.theta[n][d], Rescaled(cur.theta.v[n][d], Lo[n][d], Hi[n][d]))
    /\ \A s \in 1..cur.samples.shape[1] :
         REq(loc.samples[s][n][d], Rescaled(cur.samples.v[s][n][d], Lo[n][d], Hi[n][d]))
    /\ loc.references_given =>
         REq(loc.references[n][d], Rescaled(cur.references.v[n][d], Lo[n][d], Hi[n][d]))

\* the normalisation has run
Normalized == args.norm /\ pc \in {"coverage", "histogram"}

\* C6 as stated: with norm=True the minimum and maximum that rescale dataset n
\* are those of the D components of theta[n], one pair per dataset.
C6_PerDatasetExtremes ==
  Normalized =>
    LET N == cur.samples.shape[2]
        D == cur.samples.shape[3]
        Row(n) == {cur.theta.v[n][d] : d \in 1..D}
    IN NormalizedWith([n \in 1..N |-> [d \in 1..D |-> Extreme(Row(n), 1)]],
                      [n \in 1..N |-> [d \in 1..D |-> Extreme(Row(n), 0 - 1)]])

\* C6 amended: with norm=True the minimum and maximum that rescale dimension d
\* are those of theta[:, d] over the N datasets, one pair per dimension, shared
\* by all datasets; samples[:, n, d], theta[n, d] and, when supplied,
\* references[n, d] are rescaled with it as (x - min) / (max - min + 1e-10).
C6_PerDimensionExtremes ==
  Normalized =>
    LET N == cur.samples.shape[2]
        D == cur.samples.shape[3]
        Col(d) == {cur.theta.v[n][d] : n \in 1..N}
    IN NormalizedWith([n \in 1..N |-> [d \in 1..D |-> Extreme(Col(d), 1)]],
                      [n \in 1..N |-> [d \in 1..D |-> Extreme(Col(d), 0 - 1)]])

\* the normalisation has run on two datasets of two dimensions whose theta
\* differ in both, with supplied references
C6_Witness ==
  /\ Normalized
  /\ loc.references_given
  /\ cur.samples.shape[2] = 2
  /\ cur.samples.shape[3] = 2
  /\ cur.theta.v[1][1] # cur.theta.v[2][1]
  /\ cur.theta.v[1][2] # cur.theta.v[2][2]
  /\ cur.theta.v[1][1] # cur.theta.v[1][2]

\* the distance of sample s, and of theta, of dataset n to its reference point
SampleDistance(s, n) ==
  Distance(args.metric, loc.references[n], loc.samples[s][n], cur.samples.shape[3])

ThetaDistance(n) ==
  Distance(args.metric, loc.references[n], loc.theta[n], cur.samples.shape[3])

\* C7: the credibility value f_n is the number of the S samples of dataset n
\* strictly closer to reference n than theta[n] is, divided by S; a sample at
\* exactly theta's distance is not counted; 0 <= f_n <= 1.
C7_CredibilityValue ==
  pc = "histogram" =>
    \A n \in 1..cur.samples.shape[2] :
      LET S == cur.samples.shape[1]
          closer == {s \in 1..S : RLess(SampleDistance(s, n).v, ThetaDistance(n).v)}
      IN /\ loc.f[n] = Frac(Cardinality(closer), S)
         /\ FLeq(<<0, 1>>, loc.f[n])
         /\ FLeq(loc.f[n], <<1, 1>>)

\* a dataset has one sample at exactly theta's distance and one strictly closer
C7_Witness ==
  /\ pc = "histogram"
  /\ \E n \in 1..cur.samples.shape[2] :
       /\ \E s \in 1..cur.samples.shape[1] :
            /\ REq(SampleDistance(s, n).v, ThetaDistance(n).v)
            /\ loc.samples[s][n] # loc.theta[n]
       /\ loc.f[n] = <<1, 2>>

\* the generator state an index vector is drawn from after a seeded pass: the
\* seeded state, advanced by the reference points the pass drew
AfterPass ==
  Seeded(args.seed,
         IF IsRandom(args.references)
         THEN args.samples.shape[2] * args.samples.shape[3] ELSE 0)

\* in passes 2, 3, ... of a seeded bootstrap call: the index vector is drawn from
\* the state AfterPass and is the one value the generator yields there, and so
\* are the reference points drawn in the seeded state; the first index vector is
\* drawn from the state the call began in
C8_SeededPassState ==
  (args.bootstrap /\ args.seed # NoInt) =>
     /\ \A m1, m2 \in memo : m1.state = m2.state => m1.value = m2.value
     /\ InSingle =>
          /\ idx_from = IF i = 0 THEN Unseeded ELSE AfterPass
          /\ i >= 1 => [state |-> AfterPass, value |-> idx] \in memo
     /\ (IsRandom(args.references) /\ pc \in {"normalize", "coverage", "histogram"}) =>
          [state |-> Seeded(args.seed, 0), value |-> loc.references] \in memo
     /\ pc \in {"loop", "done"} =>
          \A j, k \in 2..Len(boot_ecp) : boot_ecp[j] = boot_ecp[k]

\* the draw that begins pass 3 or a later pass yields the index vector of the
\* pass before it
C8_SameDraw ==
  (args.bootstrap /\ args.seed # NoInt /\ pc = "loop" /\ i >= 2 /\ pc' = "single") =>
     idx' = idx

\* C8: in a seeded bootstrap call the generator is put back in the seeded state
\* in every pass, so from the second pass on every pass draws the same index
\* vector (and, for references="random", the same reference points) and rows
\* 2..num_bootstrap of the returned ensemble are equal; only the first index
\* vector comes from the generator state that preceded the call.
C8_ReseededEveryPass == []C8_SeededPassState /\ [][C8_SameDraw]_vars

\* a seeded bootstrap call with drawn references returned three rows, the first
\* unlike the second
C8_Witness ==
  /\ pc = "done"
  /\ args.bootstrap
  /\ args.seed # NoInt
  /\ IsRandom(args.references)
  /\ Len(ret.ecp) = 3
  /\ ret.ecp[1] # ret.ecp[2]
  /\ ret.ecp[2] = ret.ecp[3]

====
